---- MODULE Spec2Model ----
(***************************************************************************)
(* Webhook delivery and approval gating engine of octotask-dev.            *)
(*                                                                         *)
(* WebhookStore  (src/unnamed/part_006, lines 77-490): endpoint registry,  *)
(*   delivery with retry chains, event broadcast, capped delivery log,     *)
(*   inbound webhook router.                                               *)
(* ApprovalStore (src/unnamed/part_006, lines 578-947): approval requests, *)
(*   recorded actions and notifications.                                   *)
(* ApprovalRequest component (src/app/components/deploy/WebhookManager.tsx *)
(*   lines 813-1211): request creation, the approval transition            *)
(*   handleApprovalAction, and the buttons and comment dialog calling it.  *)
(*                                                                         *)
(* Abstractions.  Date.now() is the variable now, advanced by Tick.  In    *)
(* the delivery specifications one unit is one millisecond and retry       *)
(* delays are counted in it; in the approval specification one unit is one *)
(* hour.  Fields that no operation branches on are left out: name,         *)
(* authentication, timeout, createdAt, updatedAt of an endpoint; url,      *)
(* headers, payload, response, duration of a log; id, userName, userEmail, *)
(* comment, timestamp of an approval action; createdAt and updatedAt of a   *)
(* request; title, message and createdAt of a notification; name,         *)
(* approvers, createdAt and updatedAt of a rule.  The                      *)
(* log cap of 1000 is scaled down to MaxLogs.  A view is a mounted         *)
(* ApprovalRequest component with its own comment, showCommentDialog and   *)
(* pendingAction; all views read the one approvals atom.  An absent or     *)
(* empty field of an inbound payload is the empty string.                  *)
(***************************************************************************)
EXTENDS Integers, Sequences, FiniteSets, Bags, TLC

\* ---------------------------------------------------------------- bounds
\* last clock value of a delivery run
MaxTime == 1
\* deliveries in progress at the same time
MaxChains == 2
\* requests issued over a delivery run
MaxAttempts == 4
\* largest maxRetries an endpoint is configured with
MaxRetriesBound == 1
\* stands for the literal 1000 of addLog (part_006:307 and :309)
MaxLogs == 2
\* last clock value and requests issued in a broadcast run
BroadcastMaxTime == 1
BroadcastAttempts == 2
\* the retry limit of the endpoints of a broadcast run
BroadcastRetries == 1
\* last clock value of an approval run
ApprovalMaxTime == 2
\* largest requiredApprovers of a rule
MaxRequired == 2
\* approval actions recorded over an approval run
MaxActions == 3
\* last clock value and the retry limit of a backoff run
BackoffMaxTime == 4
BackoffRetries == 2
\* termination runs: the greatest retry limit, and the clock value time
\* reaches with no timer pending
TerminationRetries == 2
TerminationMaxTime == 1

WebhookIds == {"w1", "w2"}
EventTypes == {"deployment.completed", "approval.approved"}
\* the event sets an endpoint subscribes to
EventSets == {{"deployment.completed"}}
Urls == {"", "https://x.test"}
\* data whose JSON text is Latin-1 ("latin1") or not ("wide")
DataKinds == {"latin1", "wide"}
RetryDelays == {1}
\* the initial delays of a backoff run
BackoffDelays == {4}
\* backoffMultiplier in tenths: the input of the editor has step 0.1
BackoffMultipliers == {20}
\* what one HTTP attempt can do: 2xx, non-2xx, transport error or abort
Outcomes == {"ok", "http_error", "transport_error"}
DeploymentIds == {"d1", "d2"}
\* the ApprovalRequest components a user acts in, and the deploymentId prop
\* of each
Views == {"v1", "v2"}
ViewDeployment == [v \in Views |-> "d1"]
\* environmentStore.environments, and the environmentId prop of the
\* component of each deployment
Environments == [e \in {"e1", "e2"} |->
                   [type |-> IF e = "e1" THEN "production" ELSE "staging"]]
DeploymentEnvironment == [d \in DeploymentIds |-> "e1"]
\* the metadata of a deployment that rule conditions are evaluated against
DeploymentData == [d \in DeploymentIds |-> [branch |-> "dev"]]
RuleIds == {"r1", "r2", "r3", "r4", "r5"}
\* user ids, actions and request ids of inbound payloads; "" is an absent field
UserIds == {"", "u1"}
ActionNames == {"", "approve", "reject"}
RequestIds == DeploymentIds \cup {""}
InboundEvents == {"approval.response", "deployment.status", "deployment.started"}
\* "" is no signature header
Signatures == {"", "sha256=00"}
\* what the comment box can hold
Comments == {"", " ", "no"}
\* min timeoutHours of the applicable rules, in clock ticks
TimeoutHours == {1}

VARIABLES
  now,                \* Date.now()
  endpoints,          \* webhooks.endpoints : id -> endpoint
  logs,               \* webhooks.logs, in insertion (Object.values) order
  deliveryInProgress, \* the in-flight set of delivery ids
  chains,             \* bag of the deliveries in progress (request in flight or retry scheduled)
  broadcasts,         \* the broadcastEvent calls whose promise is pending
  budget,             \* requests the run may still issue
  lastFailed,         \* the delivery that last terminated as failed: its maxRetries and what it logged
  broadcastRejected,  \* whether the promise of a broadcastEvent call has rejected
  approvals,          \* the approvals atom: requests and notifications by id
  comment,            \* useState comment of each view
  showCommentDialog,  \* useState showCommentDialog of each view
  pendingAction,      \* useState pendingAction of each view
  result,             \* what handleIncomingWebhook returned last
  stored              \* the localStorage item octotask_approvals of the process

registry == <<endpoints>>
engine == <<logs, deliveryInProgress, chains, broadcasts, budget, lastFailed, broadcastRejected>>
view == <<comment, showCommentDialog, pendingAction>>
gate == <<approvals, view, result, stored>>
vars == <<now, registry, engine, gate>>

None == [none |-> TRUE]

\* typeof window === "undefined": the process has no localStorage
NoWindow == [window |-> "undefined"]

\* JSON.stringify of the approvals atom
Stringify(current) == [json |-> current]

\* what the subscriber leaves in localStorage after approvals.set(current)
SaveToStorage(current) == IF stored = NoWindow THEN stored ELSE Stringify(current)

\* ------------------------------------------------------------- helpers
RECURSIVE Pow(_, _)
Pow(b, e) == IF e = 0 THEN 1 ELSE b * Pow(b, e - 1)

\* ------------------------------------------------------- log retention
\* Array.prototype.sort with the comparator of part_006:308 (newest first);
\* the sort is stable, so equal timestamps keep their insertion order.
RECURSIVE InsertNewestFirst(_, _)
InsertNewestFirst(sorted, l) ==
  IF sorted = <<>> THEN <<l>>
  ELSE IF Head(sorted).timestamp >= l.timestamp
       THEN <<Head(sorted)>> \o InsertNewestFirst(Tail(sorted), l)
       ELSE <<l>> \o sorted

RECURSIVE SortNewestFirst(_)
SortNewestFirst(ls) ==
  IF ls = <<>> THEN <<>>
  ELSE InsertNewestFirst(SortNewestFirst(SubSeq(ls, 1, Len(ls) - 1)), ls[Len(ls)])

\* { ...current.logs, [log.id]: log }: an existing key keeps its place
PutLog(ls, log) ==
  IF \E i \in DOMAIN ls : ls[i].id = log.id
  THEN [i \in DOMAIN ls |-> IF ls[i].id = log.id THEN log ELSE ls[i]]
  ELSE Append(ls, log)

\* addLog: the first set() stores current.logs plus the new log; the cap
\* is then evaluated on current.logs, the snapshot taken before the new log
\* was added, and when it fires the second set() stores the newest MaxLogs
\* entries of that snapshot.
AddLog(current, log) ==
  IF Len(current) > MaxLogs
  THEN SubSeq(SortNewestFirst(current), 1, MaxLogs)
  ELSE PutLog(current, log)

\* --------------------------------------------------------- registry
EndpointConfigs ==
  [isEnabled : BOOLEAN, url : Urls, events : EventSets,
   maxRetries : 0..MaxRetriesBound, retryDelay : RetryDelays,
   backoffMultiplier : BackoffMultipliers]

AddWebhook(w, cfg) ==
  /\ endpoints' = [x \in DOMAIN endpoints \cup {w} |->
                     IF x = w THEN cfg ELSE endpoints[x]]
  /\ endpoints' # endpoints
  /\ UNCHANGED <<now, engine, gate>>

\* { ...webhook, ...updates }
Merge(webhook, updates) ==
  [f \in DOMAIN webhook |-> IF f \in DOMAIN updates THEN updates[f] ELSE webhook[f]]

UpdateSet ==
  [isEnabled : BOOLEAN] \cup [url : Urls]

UpdateWebhook(w, updates) ==
  /\ w \in DOMAIN endpoints
  /\ endpoints' = [endpoints EXCEPT ![w] = Merge(endpoints[w], updates)]
  /\ endpoints' # endpoints
  /\ UNCHANGED <<now, engine, gate>>

RemoveWebhook(w) ==
  /\ w \in DOMAIN endpoints
  /\ endpoints' = [x \in DOMAIN endpoints \ {w} |-> endpoints[x]]
  /\ UNCHANGED <<now, engine, gate>>

\* --------------------------------------------------------- delivery
\* sendWebhook up to its first suspension point.  "throw": the endpoint is
\* missing, disabled or has no url, or signPayload's btoa rejects the
\* payload inside deliverWebhook before any request is issued (the finally
\* block then removes the delivery id again); "return": the delivery id is
\* in the in-flight set; "deliver": attempt 0 is issued.
SendDecision(w, data) ==
  IF w \notin DOMAIN endpoints \/ ~endpoints[w].isEnabled \/ endpoints[w].url = ""
  THEN "throw"
  ELSE IF <<w, now>> \in deliveryInProgress THEN "return"
  ELSE IF data = "wide" THEN "throw"
  ELSE "deliver"

\* the fields of the captured endpoint object that deliverWebhook reads
Captured(webhook) ==
  [url |-> webhook.url, maxRetries |-> webhook.maxRetries,
   retryDelay |-> webhook.retryDelay, backoffMultiplier |-> webhook.backoffMultiplier]

\* the delivery sendWebhook starts: deliverWebhook(webhook, payload, 0) with
\* the endpoint object captured at the call; b is the broadcast awaiting it
NewChain(w, eventType, b) ==
  [wid |-> w, webhook |-> Captured(endpoints[w]), event |-> eventType,
   timestamp |-> now, attempt |-> 0,
   phase |-> "fetching", startTime |-> now, dueAt |-> 0, logged |-> <<>>,
   bcast |-> b]

\* what the request of the attempt in flight carries: the timestamp of the
\* payload handed to deliverWebhook, in the body and in X-Webhook-Timestamp,
\* and X-Webhook-Attempt
Sent(ch) ==
  [event |-> ch.event, timestamp |-> ch.timestamp, attemptHeader |-> ch.attempt + 1]

\* the state of the promise of sendWebhook right after the call
SendPromise(w, data) ==
  CASE SendDecision(w, data) = "throw" -> "rejected"
    [] SendDecision(w, data) = "return" -> "fulfilled"
    [] OTHER -> "pending"

\* a rejecting sendWebhook is not caught and the promises go to Promise.all
BroadcastPromiseAll(results) ==
  IF \E w \in DOMAIN results : results[w] = "rejected" THEN "rejected"
  ELSE IF \E w \in DOMAIN results : results[w] = "pending" THEN "pending"
  ELSE "resolved"

\* broadcastEvent's own promise: every sendWebhook promise gets a catch
\* handler and the handled promises go to Promise.allSettled
BroadcastPromise(results) ==
  IF \E w \in DOMAIN results : results[w] = "pending" THEN "pending" ELSE "resolved"

\* the test button of the manager UI: sendWebhook(webhookId, testPayload)
SendWebhook(w) ==
  /\ budget > 0
  /\ BagCardinality(chains) < MaxChains
  /\ SendDecision(w, "latin1") = "deliver"
  /\ chains' = chains (+) SetToBag({NewChain(w, "webhook.test", 0)})
  /\ deliveryInProgress' = deliveryInProgress \cup {<<w, now>>}
  /\ budget' = budget - 1
  /\ UNCHANGED <<now, registry, gate, logs, broadcasts, lastFailed, broadcastRejected>>

\* a handle for the pending promise of a broadcastEvent call
FreshBroadcastId == CHOOSE b \in 1..(MaxChains + 1) : \A x \in broadcasts : x.id # b

BroadcastEvent(eventType, data) ==
  LET webhooks  == {w \in DOMAIN endpoints :
                      endpoints[w].isEnabled /\ eventType \in endpoints[w].events}
      delivered == {w \in webhooks : SendDecision(w, data) = "deliver"}
      results   == [w \in webhooks |-> SendPromise(w, data)]
      status    == BroadcastPromise(results)
      b         == IF status = "pending" THEN FreshBroadcastId ELSE 0
  IN /\ Cardinality(delivered) <= budget
     /\ BagCardinality(chains) + Cardinality(delivered) <= MaxChains
     /\ chains' = chains (+) SetToBag({NewChain(w, eventType, b) : w \in delivered})
     /\ deliveryInProgress' = deliveryInProgress \cup {<<w, now>> : w \in delivered}
     /\ budget' = budget - Cardinality(delivered)
     /\ broadcasts' = IF status = "pending"
                      THEN broadcasts \cup {[id |-> b, results |-> results]}
                      ELSE broadcasts
     /\ broadcastRejected' = (broadcastRejected \/ status = "rejected")
     /\ UNCHANGED <<now, registry, gate, logs, lastFailed>>

\* attempt <= maxRetries in place of attempt < maxRetries
ShouldRetryInclusive(success, attempt, webhook) ==
  ~success /\ attempt <= webhook.maxRetries

\* a retry test that leaves out the success flag
ShouldRetryAfterSuccess(success, attempt, webhook) ==
  attempt < webhook.maxRetries

\* the retry test of deliverWebhook (part_006:198 and :208)
ShouldRetry(success, attempt, webhook) ==
  ~success /\ attempt < webhook.maxRetries

\* retryDelay * Math.pow(backoffMultiplier, attempt), which setTimeout
\* truncates to whole milliseconds
RetryDelay(webhook, attempt) ==
  (webhook.retryDelay * Pow(webhook.backoffMultiplier, attempt)) \div Pow(10, attempt)

\* the promise of sendWebhook(w) awaited by broadcast call b is fulfilled
SettleBroadcast(b, w) ==
  IF \E x \in broadcasts : x.id = b
  THEN LET call   == CHOOSE x \in broadcasts : x.id = b
           r      == [call.results EXCEPT ![w] = "fulfilled"]
           status == BroadcastPromise(r)
       IN /\ broadcasts' = IF status = "pending"
                           THEN (broadcasts \ {call}) \cup {[call EXCEPT !.results = r]}
                           ELSE broadcasts \ {call}
          /\ broadcastRejected' = (broadcastRejected \/ status = "rejected")
  ELSE UNCHANGED <<broadcasts, broadcastRejected>>

\* the request of delivery ch returns or fails: deliverWebhook from the await
\* of fetch to its end.  For attempt 0 the continuation of sendWebhook
\* (finally: delete the delivery id) and of the broadcast that awaits it run
\* with it.
AttemptCompletes(ch, outcome) ==
  LET success == outcome = "ok"
      retry   == ShouldRetry(success, ch.attempt, ch.webhook)
      log     == [id |-> <<ch.wid, ch.startTime, ch.attempt>>, success |-> success,
                  retryCount |-> ch.attempt, timestamp |-> now]
      logged  == Append(ch.logged, [retryCount |-> log.retryCount, success |-> log.success])
      next    == [ch EXCEPT !.phase = "waiting", !.startTime = 0, !.bcast = 0,
                            !.dueAt = now + RetryDelay(ch.webhook, ch.attempt),
                            !.logged = logged]
  IN /\ ch.phase = "fetching"
     /\ chains' = (chains (-) SetToBag({ch})) (+) (IF retry THEN SetToBag({next}) ELSE EmptyBag)
     /\ lastFailed' = IF retry \/ success THEN lastFailed
                      ELSE [maxRetries |-> ch.webhook.maxRetries, logged |-> logged]
     /\ logs' = AddLog(logs, log)
     /\ deliveryInProgress' =
          IF ch.attempt = 0 THEN deliveryInProgress \ {<<ch.wid, ch.startTime>>}
          ELSE deliveryInProgress
     /\ IF ch.attempt = 0 /\ ch.bcast # 0
        THEN SettleBroadcast(ch.bcast, ch.wid)
        ELSE UNCHANGED <<broadcasts, broadcastRejected>>
     /\ UNCHANGED <<now, registry, gate, budget>>

\* a retry that is issued while the previous attempt is still in flight
RetryFiresEarly(ch) ==
  /\ ch.phase = "fetching"
  /\ ch.attempt < ch.webhook.maxRetries
  /\ budget > 0
  /\ chains' = chains (+)
                 SetToBag({[ch EXCEPT !.attempt = @ + 1, !.startTime = now, !.bcast = 0]})
  /\ budget' = budget - 1
  /\ UNCHANGED <<now, registry, gate, logs, deliveryInProgress, broadcasts, lastFailed, broadcastRejected>>

\* the setTimeout callback of a scheduled retry runs:
\* deliverWebhook(webhook, payload, attempt + 1) up to the await of fetch
RetryFires(ch) ==
  /\ ch.phase = "waiting"
  /\ now >= ch.dueAt
  /\ budget > 0
  /\ chains' = (chains (-) SetToBag({ch})) (+)
                 SetToBag({[ch EXCEPT !.phase = "fetching", !.attempt = @ + 1,
                                      !.startTime = now, !.dueAt = 0]})
  /\ budget' = budget - 1
  /\ UNCHANGED <<now, registry, gate, logs, deliveryInProgress, broadcasts, lastFailed, broadcastRejected>>

Tick(limit) ==
  /\ now < limit
  /\ now' = now + 1
  /\ UNCHANGED <<registry, engine, gate>>

\* ------------------------------------------------------ approval store
\* { ...current.notifications, [notification.id]: notification }, isRead false
AddNotification(current, id) ==
  [current EXCEPT !.notifications =
     [x \in DOMAIN current.notifications \cup {id} |->
        IF x = id THEN [isRead |-> FALSE] ELSE current.notifications[x]]]

MarkNotificationAsRead(id) ==
  /\ id \in DOMAIN approvals.notifications
  /\ ~approvals.notifications[id].isRead
  /\ approvals' = [approvals EXCEPT !.notifications[id].isRead = TRUE]
  /\ stored' = SaveToStorage(approvals')
  /\ UNCHANGED <<now, registry, engine, view, result>>

CreateApprovalRequest(current, request) ==
  AddNotification(
    [current EXCEPT !.requests =
       [x \in DOMAIN current.requests \cup {request.id} |->
          IF x = request.id THEN request ELSE current.requests[x]]],
    <<"approval_required", request.id>>)

\* a store that leaves an approved or rejected request as it is
UpdateApprovalRequestTerminal(current, id, updates) ==
  IF id \in DOMAIN current.requests /\ current.requests[id].status = "pending"
  THEN AddNotification([current EXCEPT !.requests[id].status = updates.status],
                       <<"approval_" \o updates.status, id>>)
  ELSE current

\* { ...request, ...updates } with updates = { status }
UpdateApprovalRequest(current, id, updates) ==
  IF id \in DOMAIN current.requests
  THEN LET request == current.requests[id]
           updated == [current EXCEPT !.requests[id].status = updates.status]
       IN IF updates.status # request.status
          THEN AddNotification(updated, <<"approval_" \o updates.status, id>>)
          ELSE updated
  ELSE current

\* a store that appends the action to every request
AddApprovalToEvery(current, requestId, approval) ==
  [current EXCEPT !.requests =
     [d \in DOMAIN current.requests |->
        [current.requests[d] EXCEPT !.approvals = Append(@, approval)]]]

AddApprovalToRequest(current, requestId, approval) ==
  IF requestId \in DOMAIN current.requests
  THEN [current EXCEPT !.requests[requestId].approvals = Append(@, approval)]
  ELSE current

\* approvals.filter((a) => a.action === name).length
CountActions(list, name) ==
  Cardinality({i \in DOMAIN list : list[i].action = name})

RECURSIVE SumActions(_, _)
SumActions(rs, ids) ==
  IF ids = {} THEN 0
  ELSE LET d == CHOOSE x \in ids : TRUE
       IN Len(rs[d].approvals) + SumActions(rs, ids \ {d})

\* the approval actions recorded so far, over all requests
RecordedActions == SumActions(approvals.requests, DOMAIN approvals.requests)

\* ------------------------------------------------------ approval rules
Rule(environmentType, environmentId, approvalType, conditions, requiredApprovers, timeoutHours, autoApproveOnTimeout) ==
  [isEnabled |-> TRUE, environmentType |-> environmentType,
   environmentId |-> environmentId, approvalType |-> approvalType,
   conditions |-> conditions, requiredApprovers |-> requiredApprovers,
   timeoutHours |-> timeoutHours, autoApproveOnTimeout |-> autoApproveOnTimeout]

\* the condition of the default staging rule: branch equals main
BranchIsMain == [type |-> "branch", operator |-> "equals", value |-> "main"]

\* the rules a user configures in the rule editor
RuleTable ==
  [r \in RuleIds |->
     CASE r = "r1" -> Rule("production", "", "manual", <<>>, 1, 3, FALSE)
       [] r = "r2" -> Rule("production", "e1", "manual", <<>>, 2, 2, TRUE)
       [] r = "r3" -> Rule("production", "e2", "manual", <<>>, 3, 1, FALSE)
       [] r = "r4" -> Rule("staging", "", "manual", <<>>, 3, 1, FALSE)
       [] r = "r5" -> Rule("production", "", "conditional", <<BranchIsMain>>, 3, 1, FALSE)]

AddApprovalRule(id, rule) ==
  /\ approvals' = [approvals EXCEPT !.rules =
                     [x \in DOMAIN approvals.rules \cup {id} |->
                        IF x = id THEN rule ELSE approvals.rules[x]]]
  /\ approvals' # approvals
  /\ stored' = SaveToStorage(approvals')
  /\ UNCHANGED <<now, registry, engine, view, result>>

\* { ...rule, ...updates } with updates = { isEnabled }
UpdateApprovalRule(id, updates) ==
  /\ id \in DOMAIN approvals.rules
  /\ approvals' = [approvals EXCEPT !.rules[id].isEnabled = updates.isEnabled]
  /\ approvals' # approvals
  /\ stored' = SaveToStorage(approvals')
  /\ UNCHANGED <<now, registry, engine, view, result>>

RemoveApprovalRule(id) ==
  /\ id \in DOMAIN approvals.rules
  /\ approvals' = [approvals EXCEPT !.rules =
                     [x \in DOMAIN approvals.rules \ {id} |-> approvals.rules[x]]]
  /\ stored' = SaveToStorage(approvals')
  /\ UNCHANGED <<now, registry, engine, view, result>>

EvaluateBranchCondition(condition, branch) ==
  CASE condition.operator = "equals" -> branch = condition.value
    [] OTHER -> TRUE

EvaluateConditions(conditions, deploymentData) ==
  \A i \in DOMAIN conditions :
    CASE conditions[i].type = "branch" ->
           EvaluateBranchCondition(conditions[i], deploymentData.branch)
      [] OTHER -> TRUE

\* environment?.type; "undefined" when there is no such environment
EnvironmentType(environmentId) ==
  IF environmentId \in DOMAIN Environments
  THEN Environments[environmentId].type
  ELSE "undefined"

\* a filter that does not look at the environmentId of a rule
ApplicableRulesOfType(current, environmentId) ==
  {r \in DOMAIN current.rules :
     /\ current.rules[r].isEnabled
     /\ current.rules[r].environmentType = EnvironmentType(environmentId)}

\* the ids of the rules the component filters out of approvals.rules
ApplicableRules(current, environmentId) ==
  {r \in DOMAIN current.rules :
     /\ current.rules[r].isEnabled
     /\ current.rules[r].environmentType = EnvironmentType(environmentId)
     /\ (current.rules[r].environmentId = "" \/ current.rules[r].environmentId = environmentId)}

\* Math.max and Math.min of a non-empty list
Max(S) == CHOOSE x \in S : \A y \in S : y <= x

Min(S) == CHOOSE x \in S : \A y \in S : x <= y

\* ---------------------------------------------- ApprovalRequest component
\* comment.trim()
Trim(c) == IF c = " " THEN "" ELSE c

\* an effect that creates the request whether or not one exists
CreationEffectAlways(d) ==
  LET environmentId   == DeploymentEnvironment[d]
      applicableRules == ApplicableRules(approvals, environmentId)
  IN /\ applicableRules # {}
     /\ approvals' = CreateApprovalRequest(approvals,
          [id |-> d, status |-> "pending",
           requiredApprovals |->
             Max({approvals.rules[r].requiredApprovers : r \in applicableRules}),
           approvals |-> <<>>,
           rules |-> applicableRules,
           expiresAt |->
             now + Min({approvals.rules[r].timeoutHours : r \in applicableRules})])
     /\ stored' = SaveToStorage(approvals')
     /\ UNCHANGED <<now, registry, engine, view, result>>

\* useEffect of a component mounted for deployment d: no request for d and
\* applicable rules exist
CreationEffect(d) ==
  LET environmentId   == DeploymentEnvironment[d]
      applicableRules == ApplicableRules(approvals, environmentId)
  IN /\ d \notin DOMAIN approvals.requests
     /\ applicableRules # {}
     /\ approvals' = CreateApprovalRequest(approvals,
          [id |-> d, status |-> "pending",
           requiredApprovals |->
             Max({approvals.rules[r].requiredApprovers : r \in applicableRules}),
           approvals |-> <<>>,
           rules |-> applicableRules,
           expiresAt |->
             now + Min({approvals.rules[r].timeoutHours : r \in applicableRules})])
     /\ stored' = SaveToStorage(approvals')
     /\ UNCHANGED <<now, registry, engine, view, result>>

IsExpired(request) == now > request.expiresAt

CurrentUserHasApproved(request) ==
  \E i \in DOMAIN request.approvals : request.approvals[i].userId = "current-user"

\* a handler that approves only beyond the required count
EvaluateStrict(current, d) ==
  LET updatedRequest == current.requests[d]
  IN IF CountActions(updatedRequest.approvals, "reject") > 0
     THEN UpdateApprovalRequest(current, d, [status |-> "rejected"])
     ELSE IF CountActions(updatedRequest.approvals, "approve") > updatedRequest.requiredApprovals
          THEN UpdateApprovalRequest(current, d, [status |-> "approved"])
          ELSE current

\* the status the handler sets after recording, if any
Evaluate(current, d) ==
  LET updatedRequest == current.requests[d]
      approvedCount == CountActions(updatedRequest.approvals, "approve")
      rejectedCount == CountActions(updatedRequest.approvals, "reject")
  IN IF rejectedCount > 0
     THEN UpdateApprovalRequest(current, d, [status |-> "rejected"])
     ELSE IF approvedCount >= updatedRequest.requiredApprovals
          THEN UpdateApprovalRequest(current, d, [status |-> "approved"])
          ELSE current

HandleApprovalAction(v, action) ==
  LET d == ViewDeployment[v]
  IN /\ IF Trim(comment[v]) = "" /\ action = "reject"
        THEN /\ pendingAction' = [pendingAction EXCEPT ![v] = action]
             /\ showCommentDialog' = [showCommentDialog EXCEPT ![v] = TRUE]
             /\ UNCHANGED <<approvals, comment, stored>>
        ELSE LET approval == [userId |-> "current-user", action |-> action]
                 recorded == AddApprovalToRequest(approvals, d, approval)
             IN /\ RecordedActions < MaxActions
                /\ approvals' = IF d \in DOMAIN recorded.requests
                                THEN Evaluate(recorded, d)
                                ELSE recorded
                /\ comment' = [comment EXCEPT ![v] = ""]
                /\ showCommentDialog' = [showCommentDialog EXCEPT ![v] = FALSE]
                /\ pendingAction' = [pendingAction EXCEPT ![v] = "none"]
                /\ stored' = SaveToStorage(approvals')
     /\ UNCHANGED <<now, registry, engine, result>>

\* the component renders its main view: a request exists
Rendered(v) ==
  /\ ApplicableRules(approvals, DeploymentEnvironment[ViewDeployment[v]]) # {}
  /\ ViewDeployment[v] \in DOMAIN approvals.requests

\* the Approve and Reject buttons are rendered
ButtonsShown(v) ==
  /\ Rendered(v)
  /\ LET request == approvals.requests[ViewDeployment[v]]
     IN /\ request.status = "pending"
        /\ ~IsExpired(request)
        /\ ~CurrentUserHasApproved(request)

ClickApprove(v) == ButtonsShown(v) /\ HandleApprovalAction(v, "approve")

ClickReject(v) == ButtonsShown(v) /\ HandleApprovalAction(v, "reject")

\* the textarea of the comment dialog
SetComment(v, c) ==
  /\ Rendered(v) /\ showCommentDialog[v]
  /\ c # comment[v]
  /\ comment' = [comment EXCEPT ![v] = c]
  /\ UNCHANGED <<now, registry, engine, approvals, showCommentDialog, pendingAction, result, stored>>

\* Cancel, or the dialog's onOpenChange
CloseDialog(v) ==
  /\ Rendered(v) /\ showCommentDialog[v]
  /\ showCommentDialog' = [showCommentDialog EXCEPT ![v] = FALSE]
  /\ UNCHANGED <<now, registry, engine, approvals, comment, pendingAction, result, stored>>

\* the confirm button of the comment dialog
ConfirmDialog(v) ==
  /\ Rendered(v) /\ showCommentDialog[v]
  /\ ~(pendingAction[v] = "reject" /\ Trim(comment[v]) = "")
  /\ pendingAction[v] # "none"
  /\ HandleApprovalAction(v, pendingAction[v])

\* ------------------------------------------------------ inbound webhooks
\* the data of an event other than approval.response is not read
Payloads ==
  [event : {"approval.response"},
   data : {None} \cup [requestId : RequestIds, action : ActionNames, userId : UserIds]]
  \cup [event : InboundEvents \ {"approval.response"}, data : {None}]

Reply(success, message) == [success |-> success, message |-> message]

\* a route that answers every result with 200
StatusOk(reply) == 200

\* the status the route gives the result of handleIncomingWebhook
Status(reply) == IF reply.success THEN 200 ELSE 400

VerifySignature(payload, signature) == TRUE

\* what the call returns, and the approvals atom it leaves; destructuring
\* an absent data throws
\* a handler that records the response before it validates the fields
HandleApprovalResponseEager(current, data) ==
  IF data = None
  THEN [thrown |-> TRUE, approvals |-> current]
  ELSE LET recorded == AddApprovalToRequest(current, data.requestId,
                         [userId |-> data.userId, action |-> data.action])
       IN IF data.requestId = "" \/ data.action = "" \/ data.userId = ""
          THEN [thrown |-> FALSE, approvals |-> recorded,
                reply |-> Reply(FALSE, "Missing required fields")]
          ELSE [thrown |-> FALSE, approvals |-> recorded,
                reply |-> Reply(TRUE, "Approval response processed")]

HandleApprovalResponse(current, data) ==
  IF data = None
  THEN [thrown |-> TRUE, approvals |-> current]
  ELSE IF data.requestId = "" \/ data.action = "" \/ data.userId = ""
       THEN [thrown |-> FALSE, approvals |-> current,
             reply |-> Reply(FALSE, "Missing required fields")]
       ELSE [thrown |-> FALSE,
             approvals |-> AddApprovalToRequest(current, data.requestId,
                             [userId |-> data.userId, action |-> data.action]),
             reply |-> Reply(TRUE, "Approval response processed")]

HandleDeploymentStatus(current, data) ==
  [thrown |-> FALSE, approvals |-> current,
   reply |-> Reply(TRUE, "Deployment status updated")]

Incoming(current, payload, signature) ==
  IF signature # "" /\ ~VerifySignature(payload, signature)
  THEN [approvals |-> current, reply |-> Reply(FALSE, "Invalid signature")]
  ELSE LET handled ==
             CASE payload.event = "approval.response" ->
                    HandleApprovalResponse(current, payload.data)
               [] payload.event = "deployment.status" ->
                    HandleDeploymentStatus(current, payload.data)
               [] OTHER ->
                    [thrown |-> FALSE, approvals |-> current,
                     reply |-> Reply(FALSE, "Unknown event type")]
       IN IF handled.thrown
          THEN [approvals |-> handled.approvals, reply |-> Reply(FALSE, "Internal error")]
          ELSE [approvals |-> handled.approvals, reply |-> handled.reply]

HandleIncomingWebhook(payload, signature) ==
  LET done == Incoming(approvals, payload, signature)
  IN /\ done.approvals # approvals => RecordedActions < MaxActions
     /\ approvals' = done.approvals
     /\ result' = done.reply
     /\ stored' = SaveToStorage(approvals')
     /\ UNCHANGED <<now, registry, engine, view>>

ViewInit ==
  /\ comment = [v \in Views |-> ""]
  /\ showCommentDialog = [v \in Views |-> FALSE]
  /\ pendingAction = [v \in Views |-> "none"]
  /\ result = None

ApprovalInit ==
  /\ approvals = [rules |-> <<>>, requests |-> <<>>, notifications |-> <<>>]
  /\ stored = Stringify(approvals)
  /\ ViewInit

\* the store after addApprovalRule of one enabled manual production rule
\* for every environment
Configured(requiredApprovers, timeoutHours, autoApproveOnTimeout) ==
  [rules |-> [r \in {"r1"} |->
                Rule("production", "", "manual", <<>>, requiredApprovers, timeoutHours,
                     autoApproveOnTimeout)],
   requests |-> <<>>, notifications |-> <<>>]

EngineInit ==
  /\ now = 0
  /\ logs = <<>>
  /\ deliveryInProgress = {}
  /\ chains = EmptyBag
  /\ broadcasts = {}
  /\ lastFailed = None
  /\ broadcastRejected = FALSE

\* Delivery runs: the registry holds one enabled endpoint, subscribed to
\* deployment.completed, with any retry limit up to MaxRetriesBound.
DeliveryInit ==
  /\ EngineInit
  /\ ApprovalInit
  /\ budget = MaxAttempts
  /\ \E cfg \in EndpointConfigs :
       /\ cfg.isEnabled /\ cfg.url # ""
       /\ endpoints = [w \in {"w1"} |-> cfg]

DeliveryNext ==
  \/ Tick(MaxTime)
  \/ \E w \in WebhookIds : SendWebhook(w)
  \/ \E e \in EventTypes, d \in DataKinds : BroadcastEvent(e, d)
  \/ \E ch \in BagToSet(chains), o \in Outcomes : AttemptCompletes(ch, o)
  \/ \E ch \in BagToSet(chains) : RetryFires(ch)

SpecDelivery == DeliveryInit /\ [][DeliveryNext]_vars

\* Broadcast runs: the registry starts empty and is edited while events are
\* broadcast; its endpoints have the retry limit BroadcastRetries.
BroadcastConfigs == {cfg \in EndpointConfigs : cfg.maxRetries = BroadcastRetries}

BroadcastInit ==
  /\ EngineInit
  /\ ApprovalInit
  /\ budget = BroadcastAttempts
  /\ endpoints = <<>>

BroadcastNext ==
  \/ Tick(BroadcastMaxTime)
  \/ \E w \in WebhookIds, cfg \in BroadcastConfigs : AddWebhook(w, cfg)
  \/ \E w \in WebhookIds, u \in UpdateSet : UpdateWebhook(w, u)
  \/ \E w \in WebhookIds : RemoveWebhook(w)
  \/ \E e \in EventTypes, d \in DataKinds : BroadcastEvent(e, d)
  \/ \E ch \in BagToSet(chains), o \in Outcomes : AttemptCompletes(ch, o)
  \/ \E ch \in BagToSet(chains) : RetryFires(ch)

SpecBroadcast == BroadcastInit /\ [][BroadcastNext]_vars

\* Approval and inbound runs: the delivery engine is idle and the registry
\* empty.
ApprovalRunInit ==
  /\ EngineInit
  /\ ViewInit
  /\ \E r \in 1..MaxRequired, t \in TimeoutHours : approvals = Configured(r, t, FALSE)
  /\ stored = Stringify(approvals)
  /\ budget = 0
  /\ endpoints = <<>>

ViewedDeployments == {ViewDeployment[v] : v \in Views}

\* the complete, unsigned approval.response payloads for a viewed deployment
Responses ==
  [event : {"approval.response"},
   data : [requestId : ViewedDeployments, action : ActionNames \ {""},
           userId : UserIds \ {""}]]

\* Approval runs: users act in the views of one deployment while an
\* external approver answers for it.
ApprovalNext ==
  \/ Tick(ApprovalMaxTime)
  \/ \E d \in ViewedDeployments : CreationEffect(d)
  \/ \E v \in Views : ClickApprove(v)
  \/ \E v \in Views : ClickReject(v)
  \/ \E v \in Views, c \in Comments : SetComment(v, c)
  \/ \E v \in Views : CloseDialog(v)
  \/ \E v \in Views : ConfirmDialog(v)
  \/ \E p \in Responses : HandleIncomingWebhook(p, "")
  \/ \E id \in DOMAIN approvals.notifications : MarkNotificationAsRead(id)

SpecApproval == ApprovalRunInit /\ [][ApprovalNext]_vars

\* Inbound runs: requests exist for any deployment and the route receives
\* any payload, signed or not.
InboundNext ==
  \/ \E d \in DeploymentIds : CreationEffect(d)
  \/ \E p \in Payloads, s \in Signatures : HandleIncomingWebhook(p, s)

\* the store in the process that serves the route: no window, nothing loaded
InboundInit ==
  /\ EngineInit
  /\ ViewInit
  /\ \E r \in 1..MaxRequired, t \in TimeoutHours : approvals = Configured(r, t, FALSE)
  /\ stored = NoWindow
  /\ budget = 0
  /\ endpoints = <<>>

SpecInbound == InboundInit /\ [][InboundNext]_vars

BroadcastNeverRejects == ~broadcastRejected

\* a broadcast is awaiting a delivery after another sendWebhook it called
\* has thrown
BroadcastPendingAfterThrow ==
  \E call \in broadcasts : \E w \in DOMAIN call.results : call.results[w] = "rejected"

\* C3: the number of retained log entries never exceeds the cap.
LogCountWithinCap == Len(logs) <= MaxLogs

LogIds(ls) == {ls[i].id : i \in DOMAIN ls}

\* the request of delivery ch completes in this step
Completes(ch) ==
  ch.phase = "fetching" /\ CopiesIn(ch, chains') < CopiesIn(ch, chains)

\* C4: when addLog evicts entries, the log it was called with is retained
\* and no retained entry is older than an evicted one.
EvictionKeepsNewest ==
  [][\A ch \in BagToSet(chains) :
       (Completes(ch) /\ LogIds(logs) \ LogIds(logs') # {})
         => /\ <<ch.wid, ch.startTime, ch.attempt>> \in LogIds(logs')
            /\ \A i \in DOMAIN logs, j \in DOMAIN logs' :
                 logs[i].id \notin LogIds(logs') => logs'[j].timestamp >= logs[i].timestamp]_vars

\* C5: below the cap every finished attempt adds one entry of its own to
\* the log.
EachAttemptAddsOneLog ==
  [][\A ch \in BagToSet(chains) :
       (Completes(ch) /\ Len(logs) < MaxLogs) => Len(logs') = Len(logs) + 1]_vars

\* ------------------------------------------------- approval properties
\* the step is a call of handleApprovalAction in view v that records an action
Records(v) ==
  /\ ClickApprove(v) \/ ClickReject(v) \/ ConfirmDialog(v)
  /\ approvals' # approvals

\* the step appends the action of the given name to the request of d
Appends(d, name) ==
  /\ d \in DOMAIN approvals.requests
  /\ \E u \in UserIds \cup {"current-user"} :
       approvals'.requests[d].approvals =
         Append(approvals.requests[d].approvals, [userId |-> u, action |-> name])

\* C6: a call of handleApprovalAction that records an action on a request
\* whose action list then holds a reject leaves the request rejected, however
\* many approvals the list holds and in whatever order they were recorded.
RejectVetoes ==
  [][\A v \in Views :
       LET d == ViewDeployment[v]
       IN (Records(v) /\ CountActions(approvals'.requests[d].approvals, "reject") > 0)
            => approvals'.requests[d].status = "rejected"]_vars

\* a request that needs two approvals is rejected after one approve and then
\* one reject were recorded through the views
RejectedAfterApproveThenReject ==
  \E d \in DOMAIN approvals.requests :
    /\ approvals.requests[d].requiredApprovals = 2
    /\ approvals.requests[d].approvals =
         <<[userId |-> "current-user", action |-> "approve"],
           [userId |-> "current-user", action |-> "reject"]>>
    /\ approvals.requests[d].status = "rejected"

TerminalStatusStays ==
  [][\A d \in DOMAIN approvals.requests :
       approvals.requests[d].status \in {"approved", "rejected"}
         => approvals'.requests[d].status = approvals.requests[d].status]_vars

\* steps 3 to 5 of the transition algorithm, over an action list
Transition(request) ==
  IF CountActions(request.approvals, "reject") > 0 THEN "rejected"
  ELSE IF CountActions(request.approvals, "approve") >= request.requiredApprovals
       THEN "approved" ELSE "pending"

\* C9: after handleIncomingWebhook returns success for an approval.response
\* that names a pending request, the status of the request is the one the
\* transition algorithm gives for its action list.
InboundReevaluates ==
  [][\A p \in Payloads, s \in Signatures :
       (/\ HandleIncomingWebhook(p, s)
        /\ p.event = "approval.response"
        /\ result'.success
        /\ p.data.requestId \in DOMAIN approvals.requests
        /\ approvals.requests[p.data.requestId].status = "pending")
         => approvals'.requests[p.data.requestId].status =
              Transition(approvals'.requests[p.data.requestId])]_vars

\* C10: an unsigned approval.response with requestId, action and userId that
\* names an existing request returns success = true, appends one action
\* with that userId and action to that request and changes no other request.
InboundAppendsOne ==
  [][\A p \in Payloads :
       (/\ HandleIncomingWebhook(p, "")
        /\ p.event = "approval.response"
        /\ p.data # None
        /\ p.data.requestId # "" /\ p.data.action # "" /\ p.data.userId # ""
        /\ p.data.requestId \in DOMAIN approvals.requests)
         => /\ result'.success
            /\ DOMAIN approvals'.requests = DOMAIN approvals.requests
            /\ approvals'.requests[p.data.requestId].approvals =
                 Append(approvals.requests[p.data.requestId].approvals,
                        [userId |-> p.data.userId, action |-> p.data.action])
            /\ \A d \in DOMAIN approvals.requests \ {p.data.requestId} :
                 approvals'.requests[d] = approvals.requests[d]]_vars

\* the route has accepted an approval.response for one of two requests, which
\* holds the action, and the other request holds none
InboundAppendedToOne ==
  /\ result = Reply(TRUE, "Approval response processed")
  /\ \E d, e \in DOMAIN approvals.requests :
       /\ d # e
       /\ approvals.requests[d].approvals = <<[userId |-> "u1", action |-> "approve"]>>
       /\ approvals.requests[e].approvals = <<>>

\* ------------------------------------------------- inbound properties
\* verify of the Signature Codec, for the one signature header of the runs:
\* "sha256=00" was computed over the deployment.status payload
Verify(payload, signature) ==
  signature = "sha256=00" /\ payload = [event |-> "deployment.status", data |-> None]

\* C11: a call of handleIncomingWebhook with a signature that does not match
\* the payload returns success = false, 'Invalid signature', and leaves the
\* approvals as they were.
MismatchedSignatureRejected ==
  [][\A p \in Payloads, s \in Signatures :
       (HandleIncomingWebhook(p, s) /\ s # "" /\ ~Verify(p, s))
         => /\ result' = Reply(FALSE, "Invalid signature")
            /\ approvals' = approvals]_vars

\* the data of an approval.response lacks requestId, action or userId, or
\* is absent itself
LacksFields(data) ==
  data = None \/ data.requestId = "" \/ data.action = "" \/ data.userId = ""

\* C12: an unsigned approval.response whose data is absent or lacks
\* requestId, action or userId returns success = false, 'Missing required
\* fields'.
MissingFieldsReported ==
  [][\A p \in Payloads :
       (HandleIncomingWebhook(p, "") /\ p.event = "approval.response" /\ LacksFields(p.data))
         => result' = Reply(FALSE, "Missing required fields")]_vars

\* C13: a call of handleIncomingWebhook with a payload whose event is
\* neither approval.response nor deployment.status returns success = false,
\* 'Unknown event type', which the route answers with status 400.
UnknownEventRejected ==
  [][\A p \in Payloads, s \in Signatures :
       (HandleIncomingWebhook(p, s) /\ p.event \notin {"approval.response", "deployment.status"})
         => /\ result' = Reply(FALSE, "Unknown event type")
            /\ Status(result') = 400]_vars

\* the route has answered a payload of an unknown event
UnknownEventAnswered ==
  result = Reply(FALSE, "Unknown event type") /\ Status(result) = 400

\* C14: whenever handleIncomingWebhook returns success = false, the approval
\* registry (requests, notifications) and the webhook registry are unchanged.
FailureLeavesRegistries ==
  [][\A p \in Payloads, s \in Signatures :
       (HandleIncomingWebhook(p, s) /\ ~result'.success)
         => /\ approvals' = approvals
            /\ endpoints' = endpoints]_vars

\* a response naming an existing request but lacking a field has been refused
RefusedWithRequestPresent ==
  /\ result = Reply(FALSE, "Missing required fields")
  /\ "d1" \in DOMAIN approvals.requests
  /\ approvals.requests["d1"].approvals = <<>>

\* ---------------------------------------------- notification properties
\* Approval runs with an enabled endpoint subscribed to the approval
\* outcome events; every enabled step of the run is eventually taken.
NotifyInit ==
  /\ EngineInit
  /\ ViewInit
  /\ \E r \in 1..MaxRequired, t \in TimeoutHours : approvals = Configured(r, t, FALSE)
  /\ stored = Stringify(approvals)
  /\ budget = MaxAttempts
  /\ endpoints = [w \in {"w1"} |->
                    [isEnabled |-> TRUE, url |-> "https://x.test",
                     events |-> {"approval.approved", "approval.rejected"},
                     maxRetries |-> 0, retryDelay |-> 1, backoffMultiplier |-> 20]]

SpecNotify == NotifyInit /\ [][ApprovalNext]_vars /\ WF_vars(ApprovalNext)

Resolved(d) ==
  d \in DOMAIN approvals.requests /\ approvals.requests[d].status \in {"approved", "rejected"}

\* a delivery to an endpoint has been started or logged
Outbound == chains # EmptyBag \/ logs # <<>>

\* C15: every change of a request's status to approved or rejected is
\* eventually followed by a delivery of the approval.approved or
\* approval.rejected event to the subscribed endpoints.
StatusChangeBroadcasts ==
  \A d \in DeploymentIds : Resolved(d) ~> Outbound

\* ------------------------------------------------ creation properties
\* Rule runs: rules are added, switched on and off and removed in the rule
\* editor while the component of a deployment is mounted.
RulesInit ==
  /\ EngineInit
  /\ ApprovalInit
  /\ budget = 0
  /\ endpoints = <<>>

RulesNext ==
  \/ Tick(ApprovalMaxTime)
  \/ \E r \in RuleIds : AddApprovalRule(r, RuleTable[r])
  \/ \E r \in RuleIds, b \in BOOLEAN : UpdateApprovalRule(r, [isEnabled |-> b])
  \/ \E r \in RuleIds : RemoveApprovalRule(r)
  \/ \E d \in ViewedDeployments : CreationEffect(d)

SpecRules == RulesInit /\ [][RulesNext]_vars

\* C16: a request is created only when some rule is enabled, of the
\* deployment's environment type and with environmentId empty or equal to
\* the deployment's; it is created pending, with requiredApprovals the
\* maximum requiredApprovers and expiresAt the creation time plus the
\* minimum timeoutHours over those rules.
CreatedFromApplicableRules ==
  [][\A d \in DeploymentIds :
       (d \notin DOMAIN approvals.requests /\ d \in DOMAIN approvals'.requests)
         => LET rules      == approvals.rules
                env        == DeploymentEnvironment[d]
                applicable == {r \in DOMAIN rules :
                                 /\ rules[r].isEnabled
                                 /\ rules[r].environmentType = Environments[env].type
                                 /\ rules[r].environmentId \in {"", env}}
                created    == approvals'.requests[d]
            IN /\ applicable # {}
               /\ created.status = "pending"
               /\ \A r \in applicable : rules[r].requiredApprovers <= created.requiredApprovals
               /\ \E r \in applicable : rules[r].requiredApprovers = created.requiredApprovals
               /\ \A r \in applicable : created.expiresAt <= now + rules[r].timeoutHours
               /\ \E r \in applicable : created.expiresAt = now + rules[r].timeoutHours]_vars

\* a request created from the two applicable rules r1 and r2 while rules of
\* another environment and of another environment type are enabled
CreatedFromTwoRules ==
  /\ "d1" \in DOMAIN approvals.requests
  /\ approvals.requests["d1"].rules = {"r1", "r2"}
  /\ approvals.requests["d1"].requiredApprovals = 2
  /\ approvals.requests["d1"].expiresAt = now + 2
  /\ \A r \in {"r3", "r4"} : r \in DOMAIN approvals.rules /\ approvals.rules[r].isEnabled

\* C17: a conditional rule whose conditions do not evaluate true against
\* the deployment's metadata is left out at creation: a request is created
\* only when some other applicable rule exists, and requiredApprovals and
\* expiresAt are taken over the other applicable rules only.
UnmetConditionalExcluded ==
  [][\A d \in DeploymentIds :
       (d \notin DOMAIN approvals.requests /\ d \in DOMAIN approvals'.requests)
         => LET rules   == approvals.rules
                unmet   == {r \in DOMAIN rules :
                              /\ rules[r].approvalType = "conditional"
                              /\ ~EvaluateConditions(rules[r].conditions, DeploymentData[d])}
                kept    == ApplicableRules(approvals, DeploymentEnvironment[d]) \ unmet
                created == approvals'.requests[d]
            IN /\ kept # {}
               /\ created.requiredApprovals = Max({rules[r].requiredApprovers : r \in kept})
               /\ created.expiresAt = now + Min({rules[r].timeoutHours : r \in kept})]_vars

\* ------------------------------------------------- expiry properties
\* Expiry runs: the one rule of the store may have autoApproveOnTimeout
\* set; a request is created, time passes and approval responses arrive.
ExpiryInit ==
  /\ EngineInit
  /\ ViewInit
  /\ \E r \in 1..MaxRequired, t \in TimeoutHours, a \in BOOLEAN :
       approvals = Configured(r, t, a)
  /\ stored = Stringify(approvals)
  /\ budget = 0
  /\ endpoints = <<>>

ExpiryNext ==
  \/ Tick(ApprovalMaxTime)
  \/ \E d \in ViewedDeployments : CreationEffect(d)
  \/ \E p \in Responses : HandleIncomingWebhook(p, "")

SpecExpiry == ExpiryInit /\ [][ExpiryNext]_vars

\* C18: when a pending request whose expiresAt has passed and whose
\* originating rule has autoApproveOnTimeout set is acted upon, its status
\* becomes approved.
ExpiredAutoApproves ==
  [][\A d \in DOMAIN approvals.requests :
       LET request == approvals.requests[d]
       IN (/\ request.status = "pending"
           /\ IsExpired(request)
           /\ \E r \in request.rules : approvals.rules[r].autoApproveOnTimeout
           /\ approvals'.requests[d] # request)
            => approvals'.requests[d].status = "approved"]_vars

\* ------------------------------------------------- removal properties
\* C19: once an endpoint is removed from the registry, no attempt is
\* started for it, scheduled retries included, and no log entry of it is
\* added.
RemovedEndpointIsSilent ==
  [][/\ \A ch \in BagToSet(chains) :
          (ch.wid \notin DOMAIN endpoints /\ ch.phase = "waiting")
            => CopiesIn(ch, chains') >= CopiesIn(ch, chains)
     /\ \A id \in LogIds(logs') \ LogIds(logs) : id[1] \in DOMAIN endpoints]_vars

\* ----------------------------------------------- sequencing properties
\* C20: attempt N+1 of a delivery starts only from that delivery waiting
\* after attempt N, whose outcome is known and whose log entry has been
\* handed to addLog; the delivery then has that one attempt in flight and
\* no other.
AttemptsSequential ==
  [][\A next \in BagToSet(chains') :
       (/\ next.phase = "fetching"
        /\ next.attempt > 0
        /\ CopiesIn(next, chains') > CopiesIn(next, chains))
         => /\ Len(next.logged) = next.attempt
            /\ \A i \in DOMAIN next.logged : next.logged[i].retryCount = i - 1
            /\ BagCardinality(chains') = BagCardinality(chains)
            /\ \E ch \in BagToSet(chains) :
                 /\ ch.phase = "waiting"
                 /\ ch.wid = next.wid
                 /\ ch.attempt = next.attempt - 1
                 /\ ch.logged = next.logged
                 /\ CopiesIn(ch, chains') < CopiesIn(ch, chains)]_vars

\* the retry of a delivery is in flight after its attempt 0 failed and was
\* logged
RetryInFlight ==
  \E ch \in BagToSet(chains) :
    /\ ch.phase = "fetching"
    /\ ch.attempt = 1
    /\ Len(ch.logged) = 1
    /\ ~ch.logged[1].success

\* ------------------------------------------------ broadcast properties
\* the attempt-0 deliveries of event e to endpoint w in flight in bag b
\* that were started at the present time
StartedNow(b, w, e) ==
  BagCardinality([ch \in {c \in BagToSet(b) :
                            /\ c.wid = w /\ c.event = e /\ c.attempt = 0
                            /\ c.phase = "fetching" /\ c.startTime = now} |-> b[ch]])

\* C21: a call of broadcastEvent starts exactly one attempt-0 delivery of
\* the event for each endpoint that is enabled and subscribed to it at the
\* call, and none for any other endpoint.
BroadcastStartsOnePerSubscriber ==
  [][\A e \in EventTypes, d \in DataKinds :
       BroadcastEvent(e, d)
         => \A w \in WebhookIds :
              StartedNow(chains', w, e) - StartedNow(chains, w, e) =
                IF /\ w \in DOMAIN endpoints
                   /\ endpoints[w].isEnabled
                   /\ e \in endpoints[w].events
                THEN 1 ELSE 0]_vars

\* C22: a sendWebhook call is not suppressed by the in-flight set when
\* every delivery in flight to the endpoint carries another event: in
\* every state, also within the clock tick in which the other delivery
\* started, such a call does not return at the in-flight test.
OtherEventNotSuppressed ==
  \A w \in DOMAIN endpoints, e \in EventTypes :
    (/\ endpoints[w].isEnabled
     /\ endpoints[w].url # ""
     /\ e \in endpoints[w].events
     /\ \A ch \in BagToSet(chains) : ch.wid = w => ch.event # e)
      => SendDecision(w, "latin1") # "return"

\* C23: when the promise of a broadcastEvent call resolves, the delivery
\* whose attempt resolves it has reached its final outcome: no retry of it
\* is scheduled.
BroadcastAwaitsRetries ==
  [][\A call \in broadcasts, ch \in BagToSet(chains) :
       (/\ ch.bcast = call.id
        /\ Completes(ch)
        /\ ~\E x \in broadcasts' : x.id = call.id)
         => BagCardinality(chains') < BagCardinality(chains)]_vars

\* -------------------------------------------------- backoff properties
\* Backoff runs: one enabled endpoint with BackoffRetries retries and any
\* multiplier the editor's input accepts, below, at and above 1.
BackoffInit ==
  /\ EngineInit
  /\ ApprovalInit
  /\ budget = BackoffRetries + 1
  /\ \E d \in BackoffDelays, m \in {5, 10, 20} :
       endpoints = [w \in {"w1"} |->
                      [isEnabled |-> TRUE, url |-> "https://x.test",
                       events |-> {"deployment.completed"},
                       maxRetries |-> BackoffRetries, retryDelay |-> d,
                       backoffMultiplier |-> m]]

BackoffNext ==
  \/ Tick(BackoffMaxTime)
  \/ \E w \in WebhookIds : SendWebhook(w)
  \/ \E ch \in BagToSet(chains), o \in Outcomes : AttemptCompletes(ch, o)
  \/ \E ch \in BagToSet(chains) : RetryFires(ch)

SpecBackoff == BackoffInit /\ [][BackoffNext]_vars

\* C24: the retry after failed attempt k is scheduled
\* retryDelay * backoffMultiplier^k milliseconds later (to the millisecond
\* of the timer), and that delay is not shorter than the delay that
\* preceded attempt k.
BackoffGrows ==
  [][\A ch \in BagToSet(chains), next \in BagToSet(chains') :
       (/\ Completes(ch)
        /\ next.phase = "waiting"
        /\ next.wid = ch.wid
        /\ next.attempt = ch.attempt
        /\ CopiesIn(next, chains') > CopiesIn(next, chains))
         => LET k     == ch.attempt
                delay == next.dueAt - now
                exact == ch.webhook.retryDelay * Pow(ch.webhook.backoffMultiplier, k)
            IN /\ delay * Pow(10, k) <= exact
               /\ exact < (delay + 1) * Pow(10, k)
               /\ k > 0 => delay >= RetryDelay(ch.webhook, k - 1)]_vars

\* --------------------------------------------------- request properties
\* C25: no step changes the status of a request that is pending and past
\* its expiresAt.
ExpiredStaysPending ==
  [][\A d \in DOMAIN approvals.requests :
       (approvals.requests[d].status = "pending" /\ IsExpired(approvals.requests[d]))
         => approvals'.requests[d].status = "pending"]_vars

TimestampFreshPerAttempt ==
  \A ch \in BagToSet(chains) :
    ch.phase = "fetching" => Sent(ch).timestamp = ch.startTime

\* C28: after every operation that changes the approval registry, the
\* persisted snapshot is the in-memory state, whatever process ran it.
WriteThrough ==
  [][approvals' # approvals => stored' = Stringify(approvals')]_vars

\* Termination runs: one sendWebhook call for an endpoint with any retry
\* limit up to TerminationRetries, and requests enough for all its attempts.
TerminationInit ==
  /\ EngineInit
  /\ ApprovalInit
  /\ \E n \in 0..TerminationRetries, m \in {10, 20} :
       /\ budget = n + 1
       /\ endpoints = [w \in {"w1"} |->
                         [isEnabled |-> TRUE, url |-> "https://x.test",
                          events |-> {"deployment.completed"},
                          maxRetries |-> n, retryDelay |-> 1,
                          backoffMultiplier |-> m]]

\* the timers that are set
PendingTimers == {ch.dueAt : ch \in {c \in BagToSet(chains) : c.phase = "waiting"}}

\* time passes at least until every timer that is set is due
TerminationNext ==
  \/ Tick(Max({TerminationMaxTime} \cup PendingTimers))
  \/ (budget = endpoints["w1"].maxRetries + 1 /\ SendWebhook("w1"))
  \/ \E ch \in BagToSet(chains), o \in Outcomes : AttemptCompletes(ch, o)
  \/ \E ch \in BagToSet(chains) : RetryFires(ch)

\* every request returns or times out, time passes and due timers fire
SpecTermination ==
  /\ TerminationInit
  /\ [][TerminationNext]_vars
  /\ WF_vars(\E ch \in BagToSet(chains), o \in Outcomes : AttemptCompletes(ch, o))
  /\ WF_vars(\E ch \in BagToSet(chains) : RetryFires(ch))
  /\ WF_vars(Tick(Max({TerminationMaxTime} \cup PendingTimers)))

\* a delivery in progress has made at most maxRetries + 1 attempts, none of
\* them successful but possibly the one in flight
ChainWithinLimit ==
  \A ch \in BagToSet(chains) :
    /\ ch.attempt <= ch.webhook.maxRetries
    /\ Len(ch.logged) = ch.attempt + (IF ch.phase = "waiting" THEN 1 ELSE 0)
    /\ \A i \in DOMAIN ch.logged : ~ch.logged[i].success

\* C29: a delivery stops at its first successful attempt or after attempt
\* maxRetries, whichever comes first: no attempt follows a successful one,
\* there are at most maxRetries + 1 attempts, and a delivery in progress
\* eventually has no attempt in flight or scheduled.
ChainStops ==
  /\ []ChainWithinLimit
  /\ (chains # EmptyBag) ~> (chains = EmptyBag)

\* a delivery with two retries allowed has ended at the success of its
\* first retry, with one request unused
StoppedAtFirstSuccess ==
  /\ chains = EmptyBag
  /\ endpoints["w1"].maxRetries = 2
  /\ budget = 1
  /\ Len(logs) = 2
  /\ \E i, j \in DOMAIN logs :
       /\ logs[i].retryCount = 0 /\ ~logs[i].success
       /\ logs[j].retryCount = 1 /\ logs[j].success

\* C30: handleIncomingWebhook answers an approval.response with success =
\* true only when the step recorded an action in the approval registry.
SuccessMeansRecorded ==
  [][\A p \in Payloads, s \in Signatures :
       (HandleIncomingWebhook(p, s) /\ p.event = "approval.response" /\ result'.success)
         => \E d \in DOMAIN approvals.requests :
              /\ d \in DOMAIN approvals'.requests
              /\ Len(approvals'.requests[d].approvals) = Len(approvals.requests[d].approvals) + 1]_vars

====
